---- MODULE Spec2Model ----
(***************************************************************************)
(* dbdb/physical.py: Storage, an append-only record store over one file,   *)
(* shared by several processes that each hold their own Storage instance   *)
(* (own file handle, own buffer, own `locked` flag) on the same file.      *)
(*                                                                         *)
(* The file handle is modelled as a buffered file object: _dbfile.write    *)
(* puts a chunk into the handle's buffer, _dbfile.flush moves every        *)
(* buffered chunk to the file, and the buffer may also be written back     *)
(* one chunk at a time, in any order, at any moment (WriteBack).  The      *)
(* handle itself always sees the file overlaid with its own buffer (View). *)
(* `disk` is what every other handle sees and what survives a crash.       *)
(*                                                                         *)
(* Every process runs the methods statement by statement; the labels of    *)
(* pc are the line numbers of physical.py.                                 *)
(***************************************************************************)
EXTENDS Integers, Sequences, FiniteSets, TLC

\* ---- program constants ----
superblock_size == 4096
integer_length == 8

\* ---- bounds of the model ----
MaxWrites == 2
MaxLen == 1

\* the processes, each with its own file handle and Storage instance
Procs == {1, 2}

\* payloads handed to write: one byte string of every length 0..MaxLen
Payload(n) == [i \in 1..n |-> 64 + n]
Payloads == {Payload(n) : n \in 0..MaxLen}

\* contents of the file before the first Storage is constructed over it: a
\* brand-new empty file, or a file shorter than the superblock (its first
\* 8 bytes decode to 3; every integer of the model stays below 2^31)
InitFiles == {<< >>, <<0, 0, 0, 0, 0, 0, 0, 3, 9>>}


NoProc == 0
None == [op |-> "none"]
NoFile == [len |-> -1]
NoCtx == [held |-> FALSE, expect |-> << >>, nlocks |-> 0, file |-> NoFile,
          closed |-> FALSE, pos |-> 0]

\* croot.called:   commit_root_address has been called at least once
\* croot.val:      the argument of the commit_root_address call that returned
\*                 last, -1 when there is none or when another began since
\* croot.reopened: a Storage has been constructed since that call returned
NoCommit == [called |-> FALSE, val |-> -1, reopened |-> FALSE]

\* tx.mine[p]:   the records (indices of log) p's instance has written
\* tx.covers[p]: tx.mine[p] as it was when p called commit_root_address,
\*               until the root address of that call reaches the file
\* tx.rootBy:    tx.covers of the call whose root address reached the file
\*               last; empty while no commit has changed the root there

VARIABLES
    disk,      \* the bytes of the file outside any handle's buffer
    osLock,    \* holder of the exclusive advisory lock (portalocker), or NoProc
    pc,        \* pc[p]: the statement process p executes next
    caller,    \* caller[p]: the call site lock()/unlock() returns to
    locked,    \* Storage.locked of p's instance
    closed,    \* _dbfile.closed of p's handle
    pos,       \* file position of p's handle
    wbuf,      \* chunks written through p's handle and not yet in the file
    arg,       \* argument of the running method: the payload of write, or
               \* <<address>> for read and commit_root_address
    loc,       \* local variable of the running method
    last,      \* last[p]: the call that returned last, until the next call
    ctx,       \* ctx[p]: what was the case when the running call was made
    nwrites,   \* number of write calls made so far
    log,       \* the write calls that returned, in order: [by, addr, data]
    file0,     \* the file as it was before any Storage touched it
    obs,       \* what is recorded: obs.calls, the processes whose calls go to
               \* last and ctx; obs.tx, whether tx is kept
    croot,     \* the commit_root_address calls of the observed processes
    tx         \* which records the root in the file vouches for

vars == <<disk, osLock, pc, caller, locked, closed, pos, wbuf, arg, loc,
          last, ctx, nwrites, log, file0, obs, croot, tx>>

\* ---------------------------------------------------------------------
\* bytes and files
\* ---------------------------------------------------------------------
Max(a, b) == IF a >= b THEN a ELSE b
Min(a, b) == IF a <= b THEN a ELSE b

\* n zero bytes: b'\x00' * n
Zeros(n) == SubSeq([i \in 1..n |-> 0], 1, n)

\* struct.pack("!Q", n): 8 bytes, most significant first
RECURSIVE BigEndian(_, _)
BigEndian(n, k) ==
    IF k = 0 THEN << >> ELSE Append(BigEndian(n \div 256, k - 1), n % 256)

integer_to_bytes(integer) == BigEndian(integer, integer_length)

\* struct.unpack("!Q", bytes)[0]
RECURSIVE bytes_to_integer(_)
bytes_to_integer(bs) ==
    IF bs = << >> THEN 0
    ELSE 256 * bytes_to_integer(SubSeq(bs, 1, Len(bs) - 1)) + bs[Len(bs)]

\* A file is a sequence of bytes, held as its length and its non-zero
\* bytes: nz maps the offsets (from 0) of the non-zero bytes to their value.
FileOf(bytes) ==
    [len |-> Len(bytes),
     nz |-> [o \in {k - 1 : k \in {j \in 1..Len(bytes) : bytes[j] # 0}}
               |-> bytes[o + 1]]]

ByteAt(f, o) == IF o \in DOMAIN f.nz THEN f.nz[o] ELSE 0

\* the file f after `data` is written at offset off (a hole reads as zeros)
WriteAt(f, off, data) ==
    LET end == off + Len(data)
        keep == {o \in DOMAIN f.nz : o < off \/ o >= end}
        new == {off + k - 1 : k \in {j \in 1..Len(data) : data[j] # 0}}
    IN  [len |-> Max(f.len, end),
         nz |-> [o \in keep \cup new |->
                   IF o \in new THEN data[o - off + 1] ELSE f.nz[o]]]

\* up to n bytes of f from offset off: a read at end of file comes back short
ReadAt(f, off, n) ==
    LET m == Min(off + n, f.len) - off
    IN  IF m <= 0 THEN << >> ELSE [k \in 1..m |-> ByteAt(f, off + k - 1)]

RECURSIVE ApplyAll(_, _)
ApplyAll(f, chunks) ==
    IF chunks = << >> THEN f
    ELSE ApplyAll(WriteAt(f, chunks[1].off, chunks[1].data), Tail(chunks))

\* the file as p's handle sees it
View(p) == ApplyAll(disk, wbuf[p])

RemoveAt(s, i) == SubSeq(s, 1, i - 1) \o SubSeq(s, i + 1, Len(s))

\* ---------------------------------------------------------------------
\* file object primitives (self._dbfile.*)
\* ---------------------------------------------------------------------
\* _dbfile.write(data) at the current position
FileWrite(p, data) ==
    /\ wbuf' = [wbuf EXCEPT ![p] =
                  IF data = << >> THEN @
                  ELSE Append(@, [off |-> pos[p], data |-> data])]
    /\ pos' = [pos EXCEPT ![p] = @ + Len(data)]
    /\ UNCHANGED disk

\* a chunk that overwrites exactly the root address, bytes 0..7
IsRootChunk(c) == c.off = 0 /\ Len(c.data) = integer_length

\* chunks of p's buffer reach the file: a root address among them is there
RootReached(p, chunks) ==
    tx' = IF obs.tx /\ \E i \in 1..Len(chunks) : IsRootChunk(chunks[i])
          THEN [tx EXCEPT !.rootBy = tx.covers[p], !.covers[p] = {}] ELSE tx

\* _dbfile.flush()
FileFlush(p) ==
    /\ disk' = View(p)
    /\ wbuf' = [wbuf EXCEPT ![p] = << >>]
    /\ RootReached(p, wbuf[p])

\* ---------------------------------------------------------------------
\* control
\* ---------------------------------------------------------------------
Goto(p, l) == pc' = [pc EXCEPT ![p] = l]

\* the statement after the call at `site` returns
After(site) ==
    CASE site = "es26" -> "es27"
      [] site = "es31" -> "idle"
      [] site = "w67" -> "w68"
      [] site = "w70" -> "w70_64"
      [] site = "c81" -> "c82"
      [] site = "c84" -> "c84_64"
      [] site = "c86" -> "idle"
      [] site = "cl94" -> "cl95"
      [] site = "op_lock" -> "idle"
      [] site = "op_unlock" -> "idle"

LockSites == {"es26", "w67", "w70", "c81", "c84", "op_lock"}
UnlockSites == {"es31", "c86", "cl94", "op_unlock"}

\* a method of the public interface returns to its caller
\*   err:    "none", or the exception the call raised
\*   closed: the call was made after close()
Returned(p, call) ==
    /\ last' = [last EXCEPT ![p] =
                  IF p \in obs.calls
                  THEN call @@ [err |-> "none", closed |-> ctx[p].closed]
                  ELSE None]
    /\ ctx' = [ctx EXCEPT ![p] = NoCtx]

\* a method of the public interface is called: what the caller knows then
\*   held:   the instance holds the lock
\*   expect: <<b>> when the call is read(a) and the call before it was the
\*           write(b) that returned a
\*   nlocks: how many lock() calls in a row came right before (at most 2)
\*   file:   the file at that moment: for the constructor and unlock() the
\*           file outside the handle, for write and commit_root_address the
\*           file as the handle sees it
\*   closed: the file handle is closed
\*   pos:    for write and commit_root_address, the position of the handle
Called(p, op, a) ==
    /\ last' = [last EXCEPT ![p] = None]
    /\ ctx' = [ctx EXCEPT ![p] =
                 IF p \notin obs.calls THEN NoCtx ELSE
                 [held |-> locked[p],
                  expect |-> IF /\ op = "read"
                                /\ last[p].op = "write"
                                /\ last[p].err = "none"
                                /\ last[p].val = a
                             THEN <<last[p].arg>> ELSE << >>,
                  nlocks |-> IF /\ op \in {"lock", "unlock"}
                                /\ last[p].op = "lock"
                                /\ last[p].err = "none"
                             THEN last[p].nlocks ELSE 0,
                  file |-> IF op \in {"init", "unlock"} THEN disk
                           ELSE IF op \in {"write", "commit"} THEN View(p)
                           ELSE NoFile,
                  closed |-> closed[p],
                  pos |-> IF op \in {"write", "commit"} THEN pos[p] ELSE 0]]

\* lock()/unlock() return to `site`; the call is recorded when the site is
\* the public method itself or the last statement of a public method
ReturnTo(p, site, val) ==
    /\ Goto(p, After(site))
    /\ CASE site = "op_lock" ->
                Returned(p, [op |-> "lock", val |-> val, held |-> ctx[p].held,
                             nlocks |-> Min(ctx[p].nlocks + 1, 2)])
         [] site = "op_unlock" ->
                Returned(p, [op |-> "unlock", held |-> ctx[p].held,
                             nlocks |-> ctx[p].nlocks, before |-> ctx[p].file])
         [] site = "c86" -> Returned(p, [op |-> "commit", arg |-> arg[p][1],
                                         before |-> ctx[p].file,
                                         pos |-> ctx[p].pos])
         [] site = "es31" -> Returned(p, [op |-> "init", before |-> ctx[p].file])
         [] OTHER -> UNCHANGED <<last, ctx>>
    /\ croot' = IF site = "c86" /\ p \in obs.calls
                THEN [croot EXCEPT !.val = arg[p][1]] ELSE croot

\* the public method whose statement `site` is
OpOf(site) ==
    CASE site \in {"w67", "w70"} -> "write"
      [] site \in {"c81", "c84"} -> "commit"
      [] site = "op_lock" -> "lock"
      [] OTHER -> "init"

\* a statement of method op raises: the exception leaves every frame and
\* reaches the caller of the public method; when the constructor raises
\* there is no Storage, and the caller may construct one again
Raise(p, op, exception) ==
    /\ Returned(p, [op |-> op, err |-> exception])
    /\ caller' = [caller EXCEPT ![p] = "none"]
    /\ arg' = [arg EXCEPT ![p] = << >>]
    /\ loc' = [loc EXCEPT ![p] = 0]
    /\ Goto(p, IF op = "init" THEN "new" ELSE "idle")

\* the state before any Storage is constructed; the processes of `present`
\* have opened the file, the others never run
Start(files, present, observed) ==
    /\ disk \in {FileOf(bytes) : bytes \in files}
    /\ file0 = disk
    /\ obs = observed
    /\ osLock = NoProc
    /\ pc = [p \in Procs |-> IF p \in present THEN "new" ELSE "absent"]
    /\ caller = [p \in Procs |-> "none"]
    /\ locked = [p \in Procs |-> FALSE]
    /\ closed = [p \in Procs |-> FALSE]
    /\ pos = [p \in Procs |-> 0]
    /\ wbuf = [p \in Procs |-> << >>]
    /\ arg = [p \in Procs |-> << >>]
    /\ loc = [p \in Procs |-> 0]
    /\ last = [p \in Procs |-> None]
    /\ ctx = [p \in Procs |-> NoCtx]
    /\ nwrites = 0
    /\ log = << >>
    /\ croot = NoCommit
    /\ tx = [mine |-> [p \in Procs |-> {}], covers |-> [p \in Procs |-> {}],
             rootBy |-> {}]

\* one process, every call recorded
Init == Start(InitFiles, {1}, [calls |-> {1}, tx |-> FALSE])

\* two processes on the same file, which is shorter than the superblock
InitMulti == Start(InitFiles \ {<< >>}, Procs, [calls |-> {}, tx |-> FALSE])

\* ---------------------------------------------------------------------
\* Storage.__init__ and _ensure_superblock
\* ---------------------------------------------------------------------
\* __init__: self.locked = False; self._ensure_superblock()
Construct(p) ==
    /\ pc[p] = "new"
    /\ locked' = [locked EXCEPT ![p] = FALSE]
    /\ Called(p, "init", 0)
    /\ croot' = IF p \in obs.calls /\ croot.val >= 0
                THEN [croot EXCEPT !.reopened = TRUE] ELSE croot
    /\ tx' = [tx EXCEPT !.mine[p] = {}, !.covers[p] = {}]
    /\ Goto(p, "es26")
    /\ UNCHANGED <<disk, osLock, caller, closed, pos, wbuf, arg, loc, nwrites,
                   log, file0, obs>>

\* seek(0) without os.SEEK_END: the position becomes the start of the file
seek_end_start(p) == pos' = [pos EXCEPT ![p] = 0]

\* self._seek_end()
seek_end(p) == pos' = [pos EXCEPT ![p] = View(p).len]

\* self._seek_superblock()
seek_superblock(p) == pos' = [pos EXCEPT ![p] = 0]

ensure_27(p) ==
    /\ pc[p] = "es27"
    /\ seek_end(p)
    /\ Goto(p, "es28")
    /\ UNCHANGED <<disk, osLock, caller, locked, closed, wbuf, arg, loc, last,
                   ctx, nwrites, log, file0, obs, croot, tx>>

\* end_address = self._dbfile.tell()
ensure_28(p) ==
    /\ pc[p] = "es28"
    /\ loc' = [loc EXCEPT ![p] = pos[p]]
    /\ Goto(p, "es29")
    /\ UNCHANGED <<disk, osLock, caller, locked, closed, pos, wbuf, arg, last,
                   ctx, nwrites, log, file0, obs, croot, tx>>

\* the comparison the wrong way round: a short file is never padded
ensure_29_flipped(p) ==
    /\ pc[p] = "es29"
    /\ IF loc[p] > superblock_size
       THEN FileWrite(p, Zeros(loc[p] - superblock_size))
       ELSE UNCHANGED <<disk, wbuf, pos>>
    /\ loc' = [loc EXCEPT ![p] = 0]
    /\ Goto(p, "es31")
    /\ UNCHANGED <<osLock, caller, locked, closed, arg, last, ctx, nwrites,
                   log, file0, obs, croot, tx>>

\* a superblock is written at the end of the file whatever its size
ensure_29_always(p) ==
    /\ pc[p] = "es29"
    /\ FileWrite(p, Zeros(superblock_size))
    /\ loc' = [loc EXCEPT ![p] = 0]
    /\ Goto(p, "es31")
    /\ UNCHANGED <<osLock, caller, locked, closed, arg, last, ctx, nwrites,
                   log, file0, obs, croot, tx>>

\* a short file gets a whole superblock of zero bytes after what it holds
ensure_29_whole(p) ==
    /\ pc[p] = "es29"
    /\ IF loc[p] < superblock_size
       THEN FileWrite(p, Zeros(superblock_size))
       ELSE UNCHANGED <<disk, wbuf, pos>>
    /\ loc' = [loc EXCEPT ![p] = 0]
    /\ Goto(p, "es31")
    /\ UNCHANGED <<osLock, caller, locked, closed, arg, last, ctx, nwrites,
                   log, file0, obs, croot, tx>>

\* if end_address < superblock_size: write the missing zero bytes
ensure_29(p) ==
    /\ pc[p] = "es29"
    /\ IF loc[p] < superblock_size
       THEN FileWrite(p, Zeros(superblock_size - loc[p]))
       ELSE UNCHANGED <<disk, wbuf, pos>>
    /\ loc' = [loc EXCEPT ![p] = 0]
    /\ Goto(p, "es31")
    /\ UNCHANGED <<osLock, caller, locked, closed, arg, last, ctx, nwrites,
                   log, file0, obs, croot, tx>>

\* ---------------------------------------------------------------------
\* Storage.lock
\* ---------------------------------------------------------------------
\* lock() answers True also when the lock is already held
lock_34_true(p) ==
    /\ pc[p] \in LockSites
    /\ IF ~locked[p]
       THEN /\ Goto(p, "lock35")
            /\ caller' = [caller EXCEPT ![p] = pc[p]]
            /\ UNCHANGED <<last, ctx, croot>>
       ELSE /\ ReturnTo(p, pc[p], TRUE)
            /\ UNCHANGED caller
    /\ UNCHANGED <<disk, osLock, locked, closed, pos, wbuf, arg, loc, nwrites,
                   log, file0, obs, tx>>

\* if not self.locked: ... else: return False
lock_34(p) ==
    /\ pc[p] \in LockSites
    /\ IF ~locked[p]
       THEN /\ Goto(p, "lock35")
            /\ caller' = [caller EXCEPT ![p] = pc[p]]
            /\ UNCHANGED <<last, ctx, croot>>
       ELSE /\ ReturnTo(p, pc[p], FALSE)
            /\ UNCHANGED caller
    /\ UNCHANGED <<disk, osLock, locked, closed, pos, wbuf, arg, loc, nwrites,
                   log, file0, obs, tx>>

\* a lock that does not exclude the other holders (LOCK_SH for LOCK_EX)
portalocker_lock_shared(p) == osLock' = p

\* portalocker.lock(self._dbfile, LOCK_EX): blocks while another handle
\* holds the lock
portalocker_lock(p) ==
    /\ osLock = NoProc
    /\ osLock' = p

\* the lock is taken without a look at the state of the file object
lock_35_unchecked(p) ==
    /\ pc[p] = "lock35"
    /\ portalocker_lock(p)
    /\ Goto(p, "lock36")
    /\ UNCHANGED <<disk, caller, locked, closed, pos, wbuf, arg, loc, last,
                   ctx, nwrites, log, file0, obs, croot, tx>>

\* on a closed file the call raises ValueError (I/O operation on closed file)
lock_35(p) ==
    /\ pc[p] = "lock35"
    /\ IF closed[p]
       THEN /\ Raise(p, OpOf(caller[p]), "ValueError")
            /\ UNCHANGED osLock
       ELSE /\ portalocker_lock(p)
            /\ Goto(p, "lock36")
            /\ UNCHANGED <<caller, arg, loc, last, ctx>>
    /\ UNCHANGED <<disk, locked, closed, pos, wbuf, nwrites, log, file0, obs,
                   croot, tx>>

\* the flag is set before the lock is asked for
lock_35_raises_flagged(p) ==
    /\ pc[p] = "lock35"
    /\ ~closed[p]
    /\ locked' = [locked EXCEPT ![p] = TRUE]
    /\ Raise(p, OpOf(caller[p]), "LockException")
    /\ UNCHANGED <<disk, osLock, closed, pos, wbuf, nwrites, log, file0,
                   obs, croot, tx>>

\* portalocker.lock fails (the file system does not support locks, an I/O
\* error): it raises, lock() is left at line 35 without the lock
lock_35_raises(p) ==
    /\ pc[p] = "lock35"
    /\ ~closed[p]
    /\ Raise(p, OpOf(caller[p]), "LockException")
    /\ UNCHANGED <<disk, osLock, locked, closed, pos, wbuf, nwrites, log, file0,
                   obs, croot, tx>>

\* self.locked = True; return True
lock_36(p) ==
    /\ pc[p] = "lock36"
    /\ locked' = [locked EXCEPT ![p] = TRUE]
    /\ ReturnTo(p, caller[p], TRUE)
    /\ caller' = [caller EXCEPT ![p] = "none"]
    /\ UNCHANGED <<disk, osLock, closed, pos, wbuf, arg, loc, nwrites, log,
                   file0, obs, tx>>

\* ---------------------------------------------------------------------
\* Storage.unlock
\* ---------------------------------------------------------------------
\* unlock() that goes straight to giving up the lock
unlock_42_unflushed(p) ==
    /\ pc[p] \in UnlockSites
    /\ IF locked[p]
       THEN /\ Goto(p, "unlock44")
            /\ caller' = [caller EXCEPT ![p] = pc[p]]
            /\ UNCHANGED <<last, ctx, croot>>
       ELSE /\ ReturnTo(p, pc[p], FALSE)
            /\ UNCHANGED caller
    /\ UNCHANGED <<disk, osLock, locked, closed, pos, wbuf, arg, loc, nwrites,
                   log, file0, obs, tx>>

\* if self.locked:
unlock_42(p) ==
    /\ pc[p] \in UnlockSites
    /\ IF locked[p]
       THEN /\ Goto(p, "unlock43")
            /\ caller' = [caller EXCEPT ![p] = pc[p]]
            /\ UNCHANGED <<last, ctx, croot>>
       ELSE /\ ReturnTo(p, pc[p], FALSE)
            /\ UNCHANGED caller
    /\ UNCHANGED <<disk, osLock, locked, closed, pos, wbuf, arg, loc, nwrites,
                   log, file0, obs, tx>>

\* unlock() without the flush
unlock_43_noflush(p) ==
    /\ pc[p] = "unlock43"
    /\ Goto(p, "unlock44")
    /\ UNCHANGED <<disk, wbuf, osLock, caller, locked, closed, pos, arg, loc,
                   last, ctx, nwrites, log, file0, obs, croot, tx>>

\* self._dbfile.flush()
unlock_43(p) ==
    /\ pc[p] = "unlock43"
    /\ FileFlush(p)
    /\ Goto(p, "unlock44")
    /\ UNCHANGED <<osLock, caller, locked, closed, pos, arg, loc, last, ctx,
                   nwrites, log, file0, obs, croot>>

\* an unlock that leaves the OS lock where it is
portalocker_unlock_kept(p) == osLock' = osLock

\* portalocker.unlock(self._dbfile)
portalocker_unlock(p) ==
    osLock' = IF osLock = p THEN NoProc ELSE osLock

unlock_44(p) ==
    /\ pc[p] = "unlock44"
    /\ portalocker_unlock(p)
    /\ Goto(p, "unlock45")
    /\ UNCHANGED <<disk, caller, locked, closed, pos, wbuf, arg, loc, last,
                   ctx, nwrites, log, file0, obs, croot, tx>>

\* self.locked = False
unlock_45(p) ==
    /\ pc[p] = "unlock45"
    /\ locked' = [locked EXCEPT ![p] = FALSE]
    /\ ReturnTo(p, caller[p], FALSE)
    /\ caller' = [caller EXCEPT ![p] = "none"]
    /\ arg' = [arg EXCEPT ![p] = IF After(caller[p]) = "idle" THEN << >>
                                    ELSE @]
    /\ UNCHANGED <<disk, osLock, closed, pos, wbuf, loc, nwrites, log,
                   file0, obs, tx>>

\* ---------------------------------------------------------------------
\* calls of the public interface on a constructed, open Storage
\* ---------------------------------------------------------------------
\* (also after close(): the object is still there to be called)
Idle(p) == pc[p] = "idle"

\* addresses handed to read: the addresses write has returned, and for each
\* the address one byte later, which is not the start of a record
ReadAddrs ==
    {log[i].addr : i \in 1..Len(log)} \cup {log[i].addr + 1 : i \in 1..Len(log)}

\* the value handed to commit_root_address: the address write returned last,
\* or, before any write has returned, a value that is no address
RootArgs == IF log = << >> THEN {1} ELSE {log[Len(log)].addr}

\* a call touches nothing but the caller's own bookkeeping
CallFrame == UNCHANGED <<disk, osLock, caller, locked, closed, pos, wbuf, loc,
                         log, file0, obs>>

CallWrite(p) ==
    /\ Idle(p)
    /\ nwrites < MaxWrites
    /\ \E data \in Payloads : arg' = [arg EXCEPT ![p] = data]
    /\ nwrites' = nwrites + 1
    /\ Called(p, "write", 0)
    /\ Goto(p, "w67")
    /\ CallFrame /\ UNCHANGED <<croot, tx>>

CallRead(p) ==
    /\ Idle(p)
    /\ \E address \in ReadAddrs :
          /\ arg' = [arg EXCEPT ![p] = <<address>>]
          /\ Called(p, "read", address)
    /\ Goto(p, "r75")
    /\ CallFrame /\ UNCHANGED <<nwrites, croot, tx>>

CallCommit(p) ==
    /\ Idle(p)
    /\ \E root_address \in RootArgs :
          arg' = [arg EXCEPT ![p] = <<root_address>>]
    /\ Called(p, "commit", 0)
    /\ croot' = IF p \in obs.calls
                THEN [called |-> TRUE, val |-> -1, reopened |-> FALSE]
                ELSE croot
    /\ tx' = [tx EXCEPT !.covers[p] = tx.mine[p]]
    /\ Goto(p, "c81")
    /\ CallFrame /\ UNCHANGED nwrites

CallGetRoot(p) ==
    /\ Idle(p)
    /\ Called(p, "get_root", 0)
    /\ Goto(p, "g89")
    /\ CallFrame /\ UNCHANGED <<arg, nwrites, croot, tx>>

CallLock(p) ==
    /\ Idle(p)
    /\ Called(p, "lock", 0)
    /\ Goto(p, "op_lock")
    /\ CallFrame /\ UNCHANGED <<arg, nwrites, croot, tx>>

CallUnlock(p) ==
    /\ Idle(p)
    /\ Called(p, "unlock", 0)
    /\ Goto(p, "op_unlock")
    /\ CallFrame /\ UNCHANGED <<arg, nwrites, croot, tx>>

\* close() that closes the file object without unlock() first
CallClose_nounlock(p) ==
    /\ Idle(p)
    /\ Called(p, "close", 0)
    /\ Goto(p, "cl95")
    /\ CallFrame /\ UNCHANGED <<arg, nwrites, croot, tx>>

CallClose(p) ==
    /\ Idle(p)
    /\ Called(p, "close", 0)
    /\ Goto(p, "cl94")
    /\ CallFrame /\ UNCHANGED <<arg, nwrites, croot, tx>>

\* ---------------------------------------------------------------------
\* Storage.write
\* ---------------------------------------------------------------------
\* write() at the position the handle happens to be at
write_68_noseek(p) ==
    /\ pc[p] = "w68"
    /\ Goto(p, "w69")
    /\ UNCHANGED <<disk, osLock, caller, locked, closed, pos, wbuf, arg, loc,
                   last, ctx, nwrites, log, file0, obs, croot, tx>>

\* self._seek_end()
write_68(p) ==
    /\ pc[p] = "w68"
    /\ seek_end(p)
    /\ Goto(p, "w69")
    /\ UNCHANGED <<disk, osLock, caller, locked, closed, wbuf, arg, loc, last,
                   ctx, nwrites, log, file0, obs, croot, tx>>

\* object_address = self._dbfile.tell()
write_69(p) ==
    /\ pc[p] = "w69"
    /\ loc' = [loc EXCEPT ![p] = pos[p]]
    /\ Goto(p, "w70")
    /\ UNCHANGED <<disk, osLock, caller, locked, closed, pos, wbuf, arg, last,
                   ctx, nwrites, log, file0, obs, croot, tx>>

\* _write_integer, line 64: self._dbfile.write(self._integer_to_bytes(integer))
write_integer_64(p, integer) == FileWrite(p, integer_to_bytes(integer))

\* self._write_integer(len(data)), after its lock() has returned
write_70(p) ==
    /\ pc[p] = "w70_64"
    /\ write_integer_64(p, Len(arg[p]))
    /\ Goto(p, "w71")
    /\ UNCHANGED <<osLock, caller, locked, closed, arg, loc, last, ctx,
                   nwrites, log, file0, obs, croot, tx>>

\* write() releases the lock before it returns
write_71_release(p) ==
    /\ pc[p] = "w71"
    /\ disk' = WriteAt(View(p), pos[p], arg[p])
    /\ wbuf' = [wbuf EXCEPT ![p] = << >>]
    /\ pos' = [pos EXCEPT ![p] = @ + Len(arg[p])]
    /\ osLock' = NoProc
    /\ locked' = [locked EXCEPT ![p] = FALSE]
    /\ Returned(p, [op |-> "write", arg |-> arg[p], val |-> loc[p],
                    before |-> ctx[p].file, pos |-> ctx[p].pos])
    /\ log' = Append(log, [by |-> p, addr |-> loc[p], data |-> arg[p]])
    /\ arg' = [arg EXCEPT ![p] = << >>]
    /\ loc' = [loc EXCEPT ![p] = 0]
    /\ tx' = IF obs.tx THEN [tx EXCEPT !.mine[p] = @ \cup {Len(log) + 1}]
             ELSE tx
    /\ Goto(p, "idle")
    /\ UNCHANGED <<caller, closed, nwrites, file0, obs, croot>>

\* self._dbfile.write(data); return object_address
write_71(p) ==
    /\ pc[p] = "w71"
    /\ FileWrite(p, arg[p])
    /\ Returned(p, [op |-> "write", arg |-> arg[p], val |-> loc[p],
                    before |-> ctx[p].file, pos |-> ctx[p].pos])
    /\ log' = Append(log, [by |-> p, addr |-> loc[p], data |-> arg[p]])
    /\ arg' = [arg EXCEPT ![p] = << >>]
    /\ loc' = [loc EXCEPT ![p] = 0]
    /\ tx' = IF obs.tx THEN [tx EXCEPT !.mine[p] = @ \cup {Len(log) + 1}]
             ELSE tx
    /\ Goto(p, "idle")
    /\ UNCHANGED <<osLock, caller, locked, closed, nwrites, file0, obs, croot>>

\* ---------------------------------------------------------------------
\* Storage.read
\* ---------------------------------------------------------------------
\* read() without the seek: the record is read from wherever the handle is
read_75_noseek(p) ==
    /\ pc[p] = "r75"
    /\ Goto(p, "r76")
    /\ UNCHANGED <<disk, osLock, caller, locked, closed, pos, wbuf, arg, loc,
                   last, ctx, nwrites, log, file0, obs, croot, tx>>

\* self._dbfile.seek(address); on a closed file it raises ValueError
read_75(p) ==
    /\ pc[p] = "r75"
    /\ IF closed[p]
       THEN /\ Raise(p, "read", "ValueError")
            /\ UNCHANGED pos
       ELSE /\ pos' = [pos EXCEPT ![p] = arg[p][1]]
            /\ Goto(p, "r76")
            /\ UNCHANGED <<caller, arg, loc, last, ctx>>
    /\ UNCHANGED <<disk, osLock, locked, closed, wbuf, nwrites, log, file0,
                   obs, croot, tx>>

\* _read_integer at p's position: the bytes self._dbfile.read(8) returns;
\* struct.unpack raises struct.error unless they are exactly 8
read_integer_bytes(p) == ReadAt(View(p), pos[p], integer_length)

\* length = self._read_integer()
read_76(p) ==
    /\ pc[p] = "r76"
    /\ LET bs == read_integer_bytes(p) IN
       /\ pos' = [pos EXCEPT ![p] = @ + Len(bs)]
       /\ IF Len(bs) = integer_length
          THEN /\ loc' = [loc EXCEPT ![p] = bytes_to_integer(bs)]
               /\ Goto(p, "r77")
               /\ UNCHANGED <<arg, last, ctx>>
          ELSE /\ Returned(p, [op |-> "read", arg |-> arg[p][1],
                                err |-> "struct.error",
                                expect |-> ctx[p].expect,
                                held |-> ctx[p].held])
               /\ arg' = [arg EXCEPT ![p] = << >>]
               /\ Goto(p, "idle")
               /\ UNCHANGED loc
    /\ UNCHANGED <<disk, osLock, caller, locked, closed, wbuf, nwrites, log,
                   file0, obs, croot, tx>>

\* a read that checks what it got: fewer bytes than declared is an error
read_77_strict(p) ==
    /\ pc[p] = "r77"
    /\ LET data == ReadAt(View(p), pos[p], loc[p]) IN
       /\ pos' = [pos EXCEPT ![p] = @ + Len(data)]
       /\ Returned(p, [op |-> "read", arg |-> arg[p][1], val |-> data,
                       length |-> loc[p],
                       err |-> IF Len(data) < loc[p] THEN "EOFError"
                               ELSE "none",
                       expect |-> ctx[p].expect, held |-> ctx[p].held])
    /\ arg' = [arg EXCEPT ![p] = << >>]
    /\ loc' = [loc EXCEPT ![p] = 0]
    /\ Goto(p, "idle")
    /\ UNCHANGED <<disk, osLock, caller, locked, closed, wbuf, nwrites, log,
                   file0, obs, croot, tx>>

\* data = self._dbfile.read(length); return data: read() of a file object
\* returns the bytes there are when fewer than `length` are left
read_77(p) ==
    /\ pc[p] = "r77"
    /\ LET data == ReadAt(View(p), pos[p], loc[p]) IN
       /\ pos' = [pos EXCEPT ![p] = @ + Len(data)]
       /\ Returned(p, [op |-> "read", arg |-> arg[p][1], val |-> data,
                       length |-> loc[p], err |-> "none",
                       expect |-> ctx[p].expect, held |-> ctx[p].held])
    /\ arg' = [arg EXCEPT ![p] = << >>]
    /\ loc' = [loc EXCEPT ![p] = 0]
    /\ Goto(p, "idle")
    /\ UNCHANGED <<disk, osLock, caller, locked, closed, wbuf, nwrites, log,
                   file0, obs, croot, tx>>

\* ---------------------------------------------------------------------
\* Storage.commit_root_address
\* ---------------------------------------------------------------------
\* commit_root_address without the flush before the root is overwritten
commit_82_noflush(p) ==
    /\ pc[p] = "c82"
    /\ Goto(p, "c83")
    /\ UNCHANGED <<disk, wbuf, osLock, caller, locked, closed, pos, arg, loc,
                   last, ctx, nwrites, log, file0, obs, croot, tx>>

\* self._dbfile.flush()
commit_82(p) ==
    /\ pc[p] = "c82"
    /\ FileFlush(p)
    /\ Goto(p, "c83")
    /\ UNCHANGED <<osLock, caller, locked, closed, pos, arg, loc, last, ctx,
                   nwrites, log, file0, obs, croot>>

\* commit_root_address without the seek to the superblock
commit_83_noseek(p) ==
    /\ pc[p] = "c83"
    /\ Goto(p, "c84")
    /\ UNCHANGED <<disk, osLock, caller, locked, closed, pos, wbuf, arg, loc,
                   last, ctx, nwrites, log, file0, obs, croot, tx>>

\* self._seek_superblock()
commit_83(p) ==
    /\ pc[p] = "c83"
    /\ seek_superblock(p)
    /\ Goto(p, "c84")
    /\ UNCHANGED <<disk, osLock, caller, locked, closed, wbuf, arg, loc, last,
                   ctx, nwrites, log, file0, obs, croot, tx>>

\* self._write_integer(root_address), after its lock() has returned
commit_84(p) ==
    /\ pc[p] = "c84_64"
    /\ write_integer_64(p, arg[p][1])
    /\ Goto(p, "c85")
    /\ UNCHANGED <<osLock, caller, locked, closed, arg, loc, last, ctx,
                   nwrites, log, file0, obs, croot, tx>>

\* self._dbfile.flush()
commit_85(p) ==
    /\ pc[p] = "c85"
    /\ FileFlush(p)
    /\ Goto(p, "c86")
    /\ UNCHANGED <<osLock, caller, locked, closed, pos, arg, loc, last, ctx,
                   nwrites, log, file0, obs, croot>>

\* ---------------------------------------------------------------------
\* Storage.get_root_address
\* ---------------------------------------------------------------------
\* get_root_address that takes the lock before it reads
get_root_89_locks(p) ==
    /\ pc[p] = "g89"
    /\ osLock \in {NoProc, p}
    /\ osLock' = p
    /\ locked' = [locked EXCEPT ![p] = TRUE]
    /\ seek_superblock(p)
    /\ Goto(p, "g90")
    /\ UNCHANGED <<disk, caller, closed, wbuf, arg, loc, last, ctx, nwrites,
                   log, file0, obs, croot, tx>>

\* self._seek_superblock(); on a closed file the seek raises ValueError
get_root_89(p) ==
    /\ pc[p] = "g89"
    /\ IF closed[p]
       THEN /\ Raise(p, "get_root", "ValueError")
            /\ UNCHANGED pos
       ELSE /\ seek_superblock(p)
            /\ Goto(p, "g90")
            /\ UNCHANGED <<caller, arg, loc, last, ctx>>
    /\ UNCHANGED <<disk, osLock, locked, closed, wbuf, nwrites, log, file0,
                   obs, croot, tx>>

\* root_address = self._read_integer(); return root_address
get_root_90(p) ==
    /\ pc[p] = "g90"
    /\ LET bs == read_integer_bytes(p) IN
       /\ pos' = [pos EXCEPT ![p] = @ + Len(bs)]
       /\ IF Len(bs) = integer_length
          THEN Returned(p, [op |-> "get_root", val |-> bytes_to_integer(bs),
                            err |-> "none", held |-> ctx[p].held,
                            committed |-> croot])
          ELSE Returned(p, [op |-> "get_root", err |-> "struct.error",
                            held |-> ctx[p].held])
    /\ Goto(p, "idle")
    /\ UNCHANGED <<disk, osLock, caller, locked, closed, wbuf, arg, loc,
                   nwrites, log, file0, obs, croot, tx>>

\* ---------------------------------------------------------------------
\* Storage.close
\* ---------------------------------------------------------------------
\* self._dbfile.close(): closing a file object flushes it, and closing the
\* descriptor drops an advisory lock still held through it; closing a closed
\* file object does nothing (its buffer is empty, it holds no lock)
close_95(p) ==
    /\ pc[p] = "cl95"
    /\ FileFlush(p)
    /\ osLock' = IF osLock = p THEN NoProc ELSE osLock
    /\ closed' = [closed EXCEPT ![p] = TRUE]
    /\ Returned(p, [op |-> "close", held |-> ctx[p].held])
    /\ Goto(p, "idle")
    /\ UNCHANGED <<caller, locked, pos, arg, loc, nwrites, log, file0, obs, croot>>

\* the caller opens the file again, for a new Storage
Reopen(p) ==
    /\ pc[p] = "idle"
    /\ closed[p]
    /\ closed' = [closed EXCEPT ![p] = FALSE]
    /\ pos' = [pos EXCEPT ![p] = 0]
    /\ last' = [last EXCEPT ![p] = None]
    /\ Goto(p, "new")
    /\ UNCHANGED <<disk, osLock, caller, locked, wbuf, arg, loc, ctx, nwrites,
                   log, file0, obs, croot, tx>>

\* ---------------------------------------------------------------------
\* the buffer of a handle is written back behind the program's back
\* ---------------------------------------------------------------------
WriteBack(p) ==
    /\ \E i \in 1..Len(wbuf[p]) :
          /\ disk' = WriteAt(disk, wbuf[p][i].off, wbuf[p][i].data)
          /\ wbuf' = [wbuf EXCEPT ![p] = RemoveAt(@, i)]
          /\ RootReached(p, <<wbuf[p][i]>>)
    /\ UNCHANGED <<osLock, pc, caller, locked, closed, pos, arg, loc, last,
                   ctx, nwrites, log, file0, obs, croot>>

\* ---------------------------------------------------------------------
\* a process dies: what its handle had buffered is lost, the OS drops its
\* lock; afterwards a new process opens the file for a new Storage
\* ---------------------------------------------------------------------
Crash(p) ==
    /\ pc[p] \notin {"absent", "new"}
    /\ wbuf' = [wbuf EXCEPT ![p] = << >>]
    /\ osLock' = IF osLock = p THEN NoProc ELSE osLock
    /\ locked' = [locked EXCEPT ![p] = FALSE]
    /\ closed' = [closed EXCEPT ![p] = FALSE]
    /\ pos' = [pos EXCEPT ![p] = 0]
    /\ caller' = [caller EXCEPT ![p] = "none"]
    /\ arg' = [arg EXCEPT ![p] = << >>]
    /\ loc' = [loc EXCEPT ![p] = 0]
    /\ last' = [last EXCEPT ![p] = None]
    /\ ctx' = [ctx EXCEPT ![p] = NoCtx]
    /\ Goto(p, "new")
    /\ UNCHANGED <<disk, nwrites, log, file0, obs, croot, tx>>

\* one process: every operation of Storage, close and reopen, and lock
\* acquisitions that fail; the process
\* sees the file through its own handle only, so when a buffered chunk
\* reaches the file makes no difference to it
Next ==
    \E p \in Procs :
        \/ Construct(p)
        \/ ensure_27(p)
        \/ ensure_28(p)
        \/ ensure_29(p)
        \/ lock_34(p)
        \/ lock_35(p)
        \/ lock_35_raises(p)
        \/ lock_36(p)
        \/ unlock_42(p)
        \/ unlock_43(p)
        \/ unlock_44(p)
        \/ unlock_45(p)
        \/ CallWrite(p)
        \/ write_68(p)
        \/ write_69(p)
        \/ write_70(p)
        \/ write_71(p)
        \/ CallRead(p)
        \/ read_75(p)
        \/ read_76(p)
        \/ read_77(p)
        \/ CallCommit(p)
        \/ commit_82(p)
        \/ commit_83(p)
        \/ commit_84(p)
        \/ commit_85(p)
        \/ CallGetRoot(p)
        \/ get_root_89(p)
        \/ get_root_90(p)
        \/ CallLock(p)
        \/ CallUnlock(p)
        \/ CallClose(p)
        \/ close_95(p)
        \/ Reopen(p)

Spec == Init /\ [][Next]_vars

\* two processes that construct, write, commit, unlock and close; a Storage
\* that has been closed is left alone
NextMulti ==
    \E p \in Procs :
        \/ Construct(p)
        \/ ensure_27(p)
        \/ ensure_28(p)
        \/ ensure_29(p)
        \/ lock_34(p)
        \/ lock_35(p)
        \/ lock_36(p)
        \/ unlock_42(p)
        \/ unlock_43(p)
        \/ unlock_44(p)
        \/ unlock_45(p)
        \/ ~closed[p] /\ CallWrite(p)
        \/ write_68(p)
        \/ write_69(p)
        \/ write_70(p)
        \/ write_71(p)
        \/ ~closed[p] /\ CallCommit(p)
        \/ commit_82(p)
        \/ commit_83(p)
        \/ commit_84(p)
        \/ commit_85(p)
        \/ ~closed[p] /\ CallUnlock(p)
        \/ ~closed[p] /\ CallClose(p)
        \/ close_95(p)

SpecMulti == InitMulti /\ [][NextMulti]_vars

\* the statements of the methods, apart from the wait for the OS lock: a
\* process that has been called runs on
Step(p) ==
    \/ ensure_27(p) \/ ensure_28(p) \/ ensure_29(p)
    \/ lock_34(p) \/ lock_36(p)
    \/ unlock_42(p) \/ unlock_43(p) \/ unlock_44(p) \/ unlock_45(p)
    \/ write_68(p) \/ write_69(p) \/ write_70(p) \/ write_71(p)
    \/ commit_82(p) \/ commit_83(p) \/ commit_84(p) \/ commit_85(p)
    \/ close_95(p)

\* the caller that holds the lock gives it up: it calls
\* commit_root_address, unlock or close
Release(p) ==
    /\ locked[p]
    /\ ~closed[p]
    /\ (CallCommit(p) \/ CallUnlock(p) \/ CallClose(p))

\* two processes that construct, write (the empty payload), commit, unlock
\* and close
NextFair ==
    \E p \in Procs :
        \/ Construct(p)
        \/ ensure_27(p)
        \/ ensure_28(p)
        \/ ensure_29(p)
        \/ lock_34(p)
        \/ lock_35(p)
        \/ lock_36(p)
        \/ unlock_42(p)
        \/ unlock_43(p)
        \/ unlock_44(p)
        \/ unlock_45(p)
        \/ ~closed[p] /\ CallWrite(p) /\ arg'[p] = << >>
        \/ write_68(p)
        \/ write_69(p)
        \/ write_70(p)
        \/ write_71(p)
        \/ ~closed[p] /\ CallCommit(p)
        \/ commit_82(p)
        \/ commit_83(p)
        \/ commit_84(p)
        \/ commit_85(p)
        \/ ~closed[p] /\ CallUnlock(p)
        \/ ~closed[p] /\ CallClose(p)
        \/ close_95(p)

\* every process runs on, whoever holds the lock gives it up in the end, and
\* the OS grants the lock fairly: a process that waits for a lock that is
\* free again and again gets it
Fairness ==
    \A p \in Procs :
        /\ WF_vars(Step(p))
        /\ WF_vars(Release(p))
        /\ SF_vars(lock_35(p))

SpecFair == InitMulti /\ [][NextFair]_vars /\ Fairness

\* one process that constructs, writes and commits, and may die at any step
InitCrash == Start(InitFiles, {1}, [calls |-> {}, tx |-> TRUE])

NextCrash ==
    \E p \in Procs :
        \/ Construct(p)
        \/ ensure_27(p)
        \/ ensure_28(p)
        \/ ensure_29(p)
        \/ lock_34(p)
        \/ lock_35(p)
        \/ lock_36(p)
        \/ unlock_42(p)
        \/ unlock_43(p)
        \/ unlock_44(p)
        \/ unlock_45(p)
        \/ CallWrite(p)
        \/ write_68(p)
        \/ write_69(p)
        \/ write_70(p)
        \/ write_71(p)
        \/ CallCommit(p)
        \/ commit_82(p)
        \/ commit_83(p)
        \/ commit_84(p)
        \/ commit_85(p)
        \/ WriteBack(p)
        \/ Crash(p)

SpecCrash == InitCrash /\ [][NextCrash]_vars

\* ---------------------------------------------------------------------
\* Properties
\* ---------------------------------------------------------------------
\* the record of log[i] takes the bytes [addr, addr + RecordSize)
RecordSize(i) == integer_length + Len(log[i].data)

RECURSIVE SizeBefore(_)
SizeBefore(i) == IF i <= 1 THEN 0 ELSE SizeBefore(i - 1) + RecordSize(i - 1)

\* p has acquired the exclusive lock and has not released it yet
Holds(p) == pc[p] = "lock36" \/ (locked[p] /\ pc[p] # "unlock45")

\* the statements that seek in, write to or flush the file under the lock
Critical == {"es27", "es28", "es29", "w68", "w69", "w70", "w70_64", "w71",
             "c82", "c83", "c84", "c84_64", "c85", "unlock43"}

\* C1: a read of the address that the write(b) just before it returned
\* gives back exactly b, for every payload b, the empty one included.
WriteReadRoundTrip ==
    \A p \in Procs :
        (last[p].op = "read" /\ ~last[p].closed /\ last[p].expect # << >>)
            => (last[p].err = "none" /\ last[p].val = last[p].expect[1])

WriteReadRoundTripSeen ==
    /\ Len(log) = 2
    /\ last[1].op = "read"
    /\ ~last[1].closed
    /\ last[1].expect = <<Payload(1)>>
    /\ last[1].arg = log[2].addr
    /\ last[1].err = "none"

\* C2: on a file that was empty, the address returned by the i-th write is
\* superblock_size plus the sizes 8 + len of all earlier records, so the
\* addresses strictly increase (whatever reads, get_root_address and
\* commit_root_address calls come in between).
AddressIsSumOfEarlier ==
    file0.len = 0 =>
        \A i \in 1..Len(log) :
            /\ log[i].addr = superblock_size + SizeBefore(i)
            /\ \A j \in 1..(i - 1) : log[j].addr < log[i].addr

AddressIsSumOfEarlierSeen ==
    /\ file0.len = 0
    /\ Len(log) = 2
    /\ log[1].data = Payload(1)
    /\ log[2].addr = superblock_size + integer_length + 1
    /\ croot.val = log[1].addr

\* C3: at most one process at a time is between acquiring and releasing the
\* exclusive lock, that process is the holder of the OS lock, and a process
\* that seeks in, writes to or flushes the file under the lock (layout
\* initialization, write, commit_root_address, unlock) is that process.
MutualExclusion ==
    /\ \A p \in Procs : Holds(p) => osLock = p
    /\ \A p \in Procs : pc[p] \in Critical => Holds(p)
    /\ \A p, q \in Procs : (Holds(p) /\ Holds(q)) => p = q

MutualExclusionSeen ==
    \E p, q \in Procs :
        /\ pc[p] = "w71" /\ Holds(p)
        /\ pc[q] = "lock35" /\ caller[q] = "w67"

\* the record of log[i] is in the file, length prefix and payload
RecordOnDisk(i) ==
    ReadAt(disk, log[i].addr, RecordSize(i))
        = integer_to_bytes(Len(log[i].data)) \o log[i].data

\* C4: whatever is buffered may reach the file in any order and the process
\* may die at any step; still, when the root address in the file is the one
\* a commit_root_address call put there, every record the instance wrote
\* before that call is in the file completely, length prefix and payload.
DurableBeforeRoot == \A i \in tx.rootBy : RecordOnDisk(i)

\* the root vouches for record 1; record 2, written after the commit, was
\* lost when the process died
DurableBeforeRootSeen ==
    /\ tx.rootBy = {1}
    /\ Len(log) = 2
    /\ log[1].data = Payload(1)
    /\ ReadAt(disk, 0, integer_length) = integer_to_bytes(log[1].addr)
    /\ pc[1] = "new"
    /\ ~RecordOnDisk(2)

\* C5: get_root_address returns the value of the commit_root_address call
\* that returned last, when no other commit began since: on the instance
\* that committed and on a Storage constructed after close and reopen.
RootRoundTrip ==
    \A p \in Procs :
        (last[p].op = "get_root" /\ ~last[p].closed
            /\ last[p].committed.val >= 0)
            => (last[p].err = "none" /\ last[p].val = last[p].committed.val)

RootRoundTripSeen ==
    /\ last[1].op = "get_root"
    /\ ~last[1].closed
    /\ last[1].committed.reopened
    /\ Len(log) = 2
    /\ last[1].committed.val = log[2].addr
    /\ last[1].val = log[2].addr

\* C6: constructing a Storage over an empty file leaves a file of exactly
\* superblock_size zero bytes, and get_root_address returns 0 as long as
\* commit_root_address has not been called.
FreshSuperblock ==
    \A p \in Procs :
        /\ (last[p].op = "init" /\ last[p].err = "none"
               /\ last[p].before.len = 0)
              => (disk = FileOf(Zeros(superblock_size)) /\ wbuf[p] = << >>)
        /\ (last[p].op = "get_root" /\ ~last[p].closed /\ file0.len = 0
               /\ ~last[p].committed.called)
              => (last[p].err = "none" /\ last[p].val = 0)

FreshSuperblockSeen ==
    /\ file0.len = 0
    /\ last[1].op = "get_root"
    /\ ~last[1].closed
    /\ ~last[1].committed.called
    /\ last[1].val = 0
    /\ Len(log) = 1

\* C7: constructing a Storage over a file that already has at least
\* superblock_size bytes changes neither its size nor its bytes, and the
\* lock is released when the constructor returns.
InitIdempotent ==
    \A p \in Procs :
        (last[p].op = "init" /\ last[p].err = "none"
            /\ last[p].before.len >= superblock_size)
            => /\ disk = last[p].before
               /\ wbuf[p] = << >>
               /\ ~locked[p]
               /\ osLock # p

InitIdempotentSeen ==
    /\ last[1].op = "init"
    /\ last[1].err = "none"
    /\ last[1].before.len > superblock_size
    /\ Len(log) = 2
    /\ croot.val = log[1].addr

\* C8: lock() returns True exactly when the instance did not hold the lock
\* and leaves it held; the second of two lock() calls in a row returns
\* False; one unlock() releases the lock fully (flag and OS lock) however
\* many lock() calls preceded it; unlock() on an instance that does not
\* hold the lock changes nothing.
LockReentrancy ==
    \A p \in Procs :
        /\ (last[p].op = "lock" /\ last[p].err = "none")
              => /\ last[p].val = ~last[p].held
                 /\ locked[p] /\ osLock = p
                 /\ (last[p].nlocks = 2 => ~last[p].val)
        /\ last[p].op = "unlock"
              => /\ ~locked[p] /\ osLock = NoProc
                 /\ (~last[p].held => disk = last[p].before)

LockReentrancySeen ==
    /\ last[1].op = "unlock"
    /\ last[1].nlocks = 2
    /\ last[1].held

\* C9: when write returns the instance holds the lock; it still holds it
\* when a read or get_root_address called with the lock held returns; the
\* flag is cleared only by the last statement of unlock() and the OS lock
\* given up only by its portalocker.unlock; when commit_root_address
\* returns the instance does not hold the lock.
LockScope ==
    /\ [](\A p \in Procs :
            /\ (last[p].op = "write" /\ last[p].err = "none")
                  => (locked[p] /\ osLock = p)
            /\ (last[p].op \in {"read", "get_root"} /\ ~last[p].closed
                   /\ last[p].held)
                  => (locked[p] /\ osLock = p)
            /\ last[p].op = "commit" => (~locked[p] /\ osLock # p))
    /\ [][\A p \in Procs :
            /\ (locked[p] /\ ~locked'[p]) => pc[p] = "unlock45"
            /\ (osLock = p /\ osLock' # p) => pc[p] = "unlock44"]_vars

LockScopeSeen ==
    /\ last[1].op = "get_root"
    /\ ~last[1].closed
    /\ last[1].held
    /\ locked[1]
    /\ Len(log) = 2

\* C10: with several processes writing to the same file, no two write calls
\* return the same address: the records take pairwise disjoint byte ranges
\* [addr, addr + 8 + len), all at or after superblock_size.
RecordsDisjoint ==
    \A i \in 1..Len(log) :
        /\ log[i].addr >= superblock_size
        /\ \A j \in 1..(i - 1) :
              \/ log[j].addr + RecordSize(j) <= log[i].addr
              \/ log[i].addr + RecordSize(i) <= log[j].addr

RecordsDisjointSeen ==
    /\ Len(log) = 2
    /\ log[1].by # log[2].by
    /\ log[1].data = << >>

\* the methods that touch the file object before anything else
FileMethods == {"write", "read", "commit", "get_root", "lock"}

\* C11 as stated: every operation called after close() (write, read,
\* commit_root_address, get_root_address, lock, unlock, close) fails with an
\* error.
UseAfterCloseFails ==
    \A p \in Procs :
        (last[p].op \in FileMethods \cup {"unlock", "close"} /\ last[p].closed)
            => last[p].err # "none"

\* C11, amended: after close(), write, read, commit_root_address,
\* get_root_address and lock fail with the ValueError of the closed file
\* object; unlock and close return without an error; whichever was called,
\* the instance stays closed and without the lock.
UseAfterClose ==
    \A p \in Procs :
        (last[p].op \in FileMethods \cup {"unlock", "close"} /\ last[p].closed)
            => /\ last[p].op \in FileMethods => last[p].err = "ValueError"
               /\ last[p].op \in {"unlock", "close"} => last[p].err = "none"
               /\ closed[p] /\ ~locked[p] /\ osLock # p

UseAfterCloseSeen ==
    /\ last[1].op = "commit"
    /\ last[1].closed
    /\ last[1].err = "ValueError"
    /\ Len(log) = 2

\* C12 as stated: a read whose declared length exceeds the bytes left in
\* the file is an error: no read returns, without an error, fewer bytes than
\* the length it found at the address.
ShortReadIsError ==
    \A p \in Procs :
        (last[p].op = "read" /\ ~last[p].closed /\ last[p].err = "none")
            => Len(last[p].val) = last[p].length

\* C12, amended: a read raises only when fewer than 8 bytes are left for the
\* length at the address (struct.error); otherwise it returns, without an
\* error, the bytes from address + 8 on, as many as declared or, when the
\* file ends before that, as many as are left.
ShortReadIsPartial ==
    \A p \in Procs :
        (last[p].op = "read" /\ ~last[p].closed)
            => IF last[p].err = "none"
               THEN /\ last[p].val = ReadAt(View(p), last[p].arg + integer_length,
                                            last[p].length)
                    /\ last[p].length =
                          bytes_to_integer(ReadAt(View(p), last[p].arg,
                                                  integer_length))
               ELSE /\ last[p].err = "struct.error"
                    /\ View(p).len < last[p].arg + integer_length

\* the length found one byte into a record exceeds what the file holds after
\* it: the read returns the bytes of the next record as its data
ShortReadIsPartialSeen ==
    /\ last[1].op = "read"
    /\ ~last[1].closed
    /\ last[1].err = "none"
    /\ last[1].val # << >>
    /\ Len(last[1].val) < last[1].length

\* the bytes of file f in [from, to), as a file of its own
Slice(f, from, to) ==
    [len |-> Max(Min(f.len, to) - from, 0),
     nz |-> [o \in {k - from : k \in {j \in DOMAIN f.nz : j >= from /\ j < to}}
               |-> f.nz[o + from]]]

\* C13: in the file as the instance sees it, write changes no byte that was
\* there before the call and extends the file by 8 + len(payload) bytes;
\* commit_root_address sets bytes 0..7 and changes neither another byte
\* nor the size; read(a) returns the payload of the record written at a,
\* whatever writes, commits, closes and reopenings came after that write.
AppendOnly ==
    \A p \in Procs :
        /\ (last[p].op = "write" /\ last[p].err = "none")
              => /\ View(p).len
                       = last[p].before.len + integer_length + Len(last[p].arg)
                 /\ Slice(View(p), 0, last[p].before.len) = last[p].before
        /\ (last[p].op = "commit" /\ last[p].err = "none")
              => /\ View(p).len = last[p].before.len
                 /\ Slice(View(p), integer_length, View(p).len)
                       = Slice(last[p].before, integer_length, View(p).len)
        /\ (last[p].op = "read" /\ ~last[p].closed)
              => \A i \in 1..Len(log) :
                    last[p].arg = log[i].addr
                        => (last[p].err = "none" /\ last[p].val = log[i].data)

\* record 1 is read after a second write, a commit, close and reopening
AppendOnlySeen ==
    /\ last[1].op = "read"
    /\ ~last[1].closed
    /\ Len(log) = 2
    /\ last[1].arg = log[1].addr
    /\ last[1].val = Payload(1)
    /\ croot.reopened
    /\ croot.val = log[2].addr

\* C14: the constructor over a file of s < superblock_size bytes leaves a
\* file of exactly superblock_size bytes: the s bytes it had, unchanged,
\* then superblock_size - s zero bytes; over a file of at least
\* superblock_size bytes it leaves the file as it was.
PadToSuperblock ==
    \A p \in Procs :
        (last[p].op = "init" /\ last[p].err = "none")
            => /\ wbuf[p] = << >>
               /\ IF last[p].before.len < superblock_size
                  THEN /\ disk.len = superblock_size
                       /\ Slice(disk, 0, last[p].before.len) = last[p].before
                       /\ DOMAIN Slice(disk, last[p].before.len,
                                       superblock_size).nz = {}
                  ELSE disk = last[p].before

\* the file of 9 bytes has become a superblock that starts with those bytes
PadToSuperblockSeen ==
    /\ last[1].op = "init"
    /\ last[1].err = "none"
    /\ last[1].before.len = 9
    /\ disk.len = superblock_size
    /\ ByteAt(disk, 7) = 3
    /\ ByteAt(disk, 8) = 9

\* C15: an instance gives up the OS lock (in unlock, commit_root_address or
\* close) only when nothing it wrote is left in its buffer; so bytes are
\* buffered only by the holder of the lock, and every record written by a
\* process that is not the holder is in the file completely, where the
\* process that takes the lock next finds it below the end of the file.
FlushBeforeRelease ==
    /\ [][\A p \in Procs : (osLock = p /\ osLock' # p) => wbuf[p] = << >>]_vars
    /\ [](\A p \in Procs : wbuf[p] # << >> => osLock = p)
    /\ [](\A i \in 1..Len(log) : log[i].by # osLock => RecordOnDisk(i))

\* p wrote a record and closed its Storage; q, in write(), has taken the
\* lock and found the end of the file behind p's record
FlushBeforeReleaseSeen ==
    \E p, q \in Procs :
        /\ Len(log) = 1
        /\ log[1].by = p
        /\ log[1].data = Payload(1)
        /\ closed[p]
        /\ q # p
        /\ osLock = q
        /\ pc[q] = "w69"
        /\ pos[q] = log[1].addr + RecordSize(1)

\* C16: when close() returns on a Storage that was open, with or without
\* the lock, the file object is closed, the flag is False and the OS lock
\* is free; and a file object that is open becomes closed only by the
\* last statement of close().
CloseReleases ==
    /\ [](\A p \in Procs :
            (last[p].op = "close" /\ ~last[p].closed)
                => (closed[p] /\ ~locked[p] /\ osLock = NoProc))
    /\ [][\A p \in Procs : (~closed[p] /\ closed'[p]) => pc[p] = "cl95"]_vars

\* close() has returned on a Storage that held the lock after a write
CloseReleasesSeen ==
    /\ last[1].op = "close"
    /\ ~last[1].closed
    /\ last[1].held
    /\ closed[1]
    /\ Len(log) = 1

\* C17: between two operations the flag of an instance is True exactly
\* when the instance holds the OS lock; after an operation in which the
\* acquisition of the OS lock failed the flag is False.
FlagIsLock ==
    \A p \in Procs :
        /\ pc[p] = "idle" => (locked[p] <=> osLock = p)
        /\ (last[p].op # "none" /\ last[p].err = "LockException")
              => (~locked[p] /\ osLock # p)

\* a write, an unlock, then a lock() whose acquisition failed
FlagIsLockSeen ==
    /\ pc[1] = "idle"
    /\ last[1].op = "lock"
    /\ last[1].err = "LockException"
    /\ ~locked[1]
    /\ Len(log) = 1

\* the statements of read and get_root_address
ReadLabels == {"r75", "r76", "r77", "g89", "g90"}

\* C18: no statement of read or get_root_address changes the file, the
\* buffer of the handle, the flag or the OS lock; and wherever the calls
\* before have left the position of the handle, write returns the size the
\* file had as its address and puts its record there, and
\* commit_root_address puts the root address into bytes 0..7.
ReadsChangeNothing ==
    /\ [][\A p \in Procs :
            pc[p] \in ReadLabels
                => /\ disk' = disk /\ wbuf' = wbuf
                   /\ osLock' = osLock /\ locked' = locked]_vars
    /\ [](\A p \in Procs :
            /\ (last[p].op = "write" /\ last[p].err = "none")
                  => /\ last[p].val = last[p].before.len
                     /\ ReadAt(View(p), last[p].val,
                               integer_length + Len(last[p].arg))
                           = integer_to_bytes(Len(last[p].arg)) \o last[p].arg
            /\ (last[p].op = "commit" /\ last[p].err = "none")
                  => ReadAt(View(p), 0, integer_length)
                        = integer_to_bytes(last[p].arg))

\* a write called with the handle where get_root_address left it, right
\* after the root address, has returned
ReadsChangeNothingSeen ==
    /\ last[1].op = "write"
    /\ last[1].err = "none"
    /\ last[1].pos = integer_length
    /\ last[1].val = last[1].before.len
    /\ Len(log) = 2

\* C19: when every process runs on, every holder of the lock calls
\* commit_root_address, unlock or close in the end and the OS grants the
\* lock fairly, a process that waits in lock() (from the constructor, write
\* or commit_root_address) gets the lock and its operation returns; and as
\* long as another process keeps the lock, as it does after a write, the
\* process that waits stays where it is.
LockProgress ==
    /\ \A p \in Procs : (pc[p] = "lock35") ~> (pc[p] = "idle")
    /\ [][\A p \in Procs :
            (pc[p] = "lock35" /\ pc'[p] # "lock35")
                => (pc'[p] = "lock36" /\ osLock' = p)]_vars
    /\ [][\A p, q \in Procs :
            (p # q /\ osLock = p /\ osLock' = p /\ pc[q] = "lock35")
                => pc'[q] = "lock35"]_vars

\* p has written and holds the lock between two calls; q waits for it in
\* the constructor
LockProgressSeen ==
    \E p, q \in Procs :
        /\ pc[p] = "idle" /\ locked[p] /\ osLock = p
        /\ Len(log) = 1 /\ log[1].by = p
        /\ pc[q] = "lock35" /\ caller[q] = "es26"
====
